---- MODULE Spec2Model ----
(***************************************************************************)
(* The OTP issuance / verification subsystem of src/app.py: the in-memory  *)
(* OTP_STORE, the generate-otp and verify-otp handlers, the clock and the  *)
(* mail hand-off.  A handler is a thread of the WSGI server; one action is *)
(* one step of a handler between two accesses to shared state (the store,  *)
(* the clock, the SMTP relay).                                             *)
(***************************************************************************)
EXTENDS Integers, Sequences, FiniteSets, TLC

VARIABLES
    OTP_STORE,  \* app.py:30  dict: session id -> {'otp', 'email', 'expiry'}
    now,        \* the value time.time() returns
    issued,     \* how often uuid.uuid4() has returned each id
    mail,       \* the (receiver_email, otp_code) pairs given to send_otp_email
    thr,        \* the request each server thread is handling and its locals
    out,        \* the response sent last
    nSuccess,   \* per session id: the "OTP verified successfully." responses sent
    nExpired    \* per session id: the "OTP has expired." responses sent

vars == <<OTP_STORE, now, issued, mail, thr, out, nSuccess, nExpired>>

---------------------------------------------------------------------------
(* Bounds of the model *)

MaxSessions == 2
MaxThreads == 2
MaxTicks == 2

(* Program constants *)

OTP_EXPIRY_SECONDS == 300

---------------------------------------------------------------------------
(* Python and JSON values *)

\* A decoded JSON value: its type and its content as a sequence (the code
\* points of a string, the one number of an int, nothing for null).
JNone == [t |-> "null", v |-> <<>>]
JStr(s) == [t |-> "str", v |-> s]
JInt(n) == [t |-> "int", v |-> <<n>>]

\* A test for None alone: `x is None`.
IsNone(x) == x.t = "null"

\* `not x`: None, the empty string and the number 0 are falsy.
Falsy(x) ==
    \/ x.t = "null"
    \/ x.t = "str" /\ x.v = <<>>
    \/ x.t = "int" /\ x.v = <<0>>

\* str(n) for n >= 0: the decimal digits, as code points.
RECURSIVE str(_)
str(n) == IF n < 10 THEN <<48 + n>> ELSE str(n \div 10) \o <<48 + (n % 10)>>

\* x == s, for a JSON value x and a Python str s: equal type and equal content.
PyEqStr(x, s) == x.t = "str" /\ x.v = s

\* None, as the result of dict.get on an absent key.
None == <<>>

\* d.get(k)
DictGet(d, k) == IF k \in DOMAIN d THEN d[k] ELSE None

\* d[k] = v
DictSet(d, k, v) == [x \in DOMAIN d \cup {k} |-> IF x = k THEN v ELSE d[x]]

\* A del that removes nothing.
DictDelKeeps(d, k) == d

\* A del that takes with it every record of the same email.
DictDelSameEmail(d, k) ==
    [x \in {y \in DOMAIN d : y # k /\ (k \in DOMAIN d => d[y].email # d[k].email)}
        |-> d[x]]

\* del d[k], for k in d
DictDel(d, k) == [x \in DOMAIN d \ {k} |-> d[x]]

---------------------------------------------------------------------------
(* The values the model draws requests and random results from *)

Threads == 1 .. MaxThreads

\* str(uuid.uuid4()): the ids the generator can return, as Python strings.
SessionIds == {JStr(str(k)) : k \in 1 .. MaxSessions}

\* secrets.randbelow(900000): the lowest and the highest result.
RandBelow == {0, 899999}

\* The codes these draws give, as the strings a caller submits.
Codes == {str(r + 100000) : r \in RandBelow}

\* An address, "a".
Addresses == {JStr(<<97>>)}

\* A request: whether it carries JSON (request.is_json), whether the decoded
\* body is an object (has .get), and the fields of the object (null when
\* the object has no such field).
Request(is_json, is_dict, email, session_id, otp_code) ==
    [is_json |-> is_json, is_dict |-> is_dict, email |-> email,
     session_id |-> session_id, otp_code |-> otp_code,
     username |-> JNone, receiver |-> JNone, message |-> JNone]

NoRequest == Request(FALSE, FALSE, JNone, JNone, JNone)

\* Bodies that are not JSON, or JSON but no object.
BadBodies ==
    {Request(FALSE, FALSE, JNone, JNone, JNone),
     Request(TRUE, FALSE, JNone, JNone, JNone)}

\* generate-otp requests: the email absent, empty, or an address.
GenerateRequests ==
    BadBodies
        \cup {Request(TRUE, TRUE, e, JNone, JNone) : e \in {JNone, JStr(<<>>)} \cup Addresses}

\* verify-otp requests.  The session_id is an id (issued or not);
\* the otp_code is a code as a string or as a number, or the first five
\* digits of a code.  A request with a field absent, empty or 0 carries the
\* other field well-formed.
VerifyRequests ==
    BadBodies
        \cup {Request(TRUE, TRUE, JNone, s, c) :
                s \in SessionIds,
                c \in {JStr(x) : x \in Codes}
                        \cup {JInt(100000), JStr(SubSeq(str(100000), 1, 5))}}
        \cup {Request(TRUE, TRUE, JNone, s, JStr(str(100000))) : s \in {JNone, JStr(<<>>)}}
        \cup {Request(TRUE, TRUE, JNone, JStr(str(1)), c) : c \in {JNone, JStr(<<>>), JInt(0)}}

\* send-response requests: the fields of a support ticket, each absent or
\* present; 'userId' is only copied into the mail text.
SupportRequest(username, receiver, message) ==
    [Request(TRUE, TRUE, JNone, JNone, JNone) EXCEPT
        !.username = username, !.receiver = receiver, !.message = message]

SupportRequests ==
    BadBodies
        \cup {SupportRequest(JStr(<<117>>), r, JStr(<<109>>)) : r \in Addresses}
        \cup {SupportRequest(JNone, r, JStr(<<109>>)) : r \in Addresses}
        \cup {SupportRequest(JStr(<<117>>), JNone, JStr(<<109>>)),
              SupportRequest(JStr(<<117>>), JStr(<<>>), JStr(<<109>>))}
        \cup {SupportRequest(JStr(<<117>>), r, JNone) : r \in Addresses}

---------------------------------------------------------------------------
(* Responses *)

\* jsonify(...), status: the HTTP status, the message, and the session_id
\* and expires_in_seconds fields (null when the body has none).  exc names
\* the exception of an unhandled error, which Flask answers with 500.
Response(status, message, session_id, expires, exc) ==
    [status |-> status, message |-> message, session_id |-> session_id,
     expires_in_seconds |-> expires, exc |-> exc]

NoResponse == Response(0, "", JNone, JNone, "")
Error(status, message) == Response(status, message, JNone, JNone, "")
Unhandled(exc) == Response(500, "Internal Server Error", JNone, JNone, exc)

MissingJson == Error(400, "Missing JSON in request")
MissingEmail == Error(400, "Missing 'email' field")
MissingVerifyField == Error(400, "Missing 'session_id' or 'otp_code'")
SessionNotFound == Error(404, "Invalid or expired session ID.")
Expired == Error(400, "OTP has expired. Please request a new one.")
CodeMismatch == Error(400, "Invalid OTP code.")
Verified == Error(200, "OTP verified successfully.")
DeliveryFailed ==
    Error(500, "Failed to send OTP email due to authentication or connection failure.")
MissingTicketField ==
    Error(400, "Missing required fields (username, email, or concern).")
TicketReceived == Error(200, "Support ticket received and emails sent successfully.")
TicketFailed == Error(500, "Internal email service error.")
OtpSent(session_id) ==
    Response(200, "OTP sent to email.", session_id, JInt(OTP_EXPIRY_SECONDS), "")

---------------------------------------------------------------------------
(* Threads *)

\* A thread that handles no request.
Idle ==
    [pc |-> "idle", route |-> "", req |-> NoRequest,
     session_id |-> JNone, otp_code |-> JNone, expiry_time |-> 0,
     success |-> FALSE, stored_otp_data |-> None]

\* A handler returns resp: the response is sent and the thread is free.
Return(t, resp) ==
    /\ thr' = [thr EXCEPT ![t] = Idle]
    /\ out' = resp

\* No other thread is handling a request.
Alone(t) == \A u \in Threads \ {t} : thr[u].pc = "idle"

Init ==
    /\ OTP_STORE = << >>
    /\ now = 0
    /\ issued = [s \in SessionIds |-> 0]
    /\ mail = {}
    /\ thr = [t \in Threads |-> Idle]
    /\ out = NoResponse
    /\ nSuccess = [s \in SessionIds |-> 0]
    /\ nExpired = [s \in SessionIds |-> 0]

\* Flask routes a request to its handler, on a free thread.
Receive(t) ==
    /\ thr[t].pc = "idle"
    /\ \/ \E req \in GenerateRequests :
            thr' = [thr EXCEPT ![t] = [Idle EXCEPT !.pc = "generate", !.route = "generate-otp", !.req = req]]
       \/ \E req \in VerifyRequests :
            thr' = [thr EXCEPT ![t] = [Idle EXCEPT !.pc = "verify", !.route = "verify-otp", !.req = req]]
       \/ \E req \in SupportRequests :
            thr' = [thr EXCEPT ![t] = [Idle EXCEPT !.pc = "support", !.route = "send-response", !.req = req]]
    /\ UNCHANGED <<OTP_STORE, now, issued, mail, out, nSuccess, nExpired>>

---------------------------------------------------------------------------
(* generate-otp: app.py:94-129 *)

\* An id generator that may hand out an id a second time.
uuid4_reused == {s \in SessionIds : issued[s] <= 1}

\* uuid.uuid4() keeps its contract: an id it has not returned before.
uuid4 == {s \in SessionIds : issued[s] = 0}

\* uuid.uuid4() as the random draw it is: any id, while draws remain.
RECURSIVE Sum(_, _)
Sum(f, S) == IF S = {} THEN 0 ELSE LET x == CHOOSE x \in S : TRUE IN f[x] + Sum(f, S \ {x})
uuid4_random == {s \in SessionIds : Sum(issued, SessionIds) < MaxSessions}

\* A record that keeps the raw draw of randbelow, without the offset 100000.
OtpRecordRawDraw(otp_code, email, expiry_time) ==
    [otp |-> str(otp_code.v[1] - 100000), email |-> email, expiry |-> expiry_time]

\* A record whose expiry is the time of issuance, without the lifetime added.
OtpRecordNoLifetime(otp_code, email, expiry_time) ==
    [otp |-> str(otp_code.v[1]), email |-> email,
     expiry |-> expiry_time - OTP_EXPIRY_SECONDS]

\* The record generate-otp stores (app.py:112-116).
OtpRecord(otp_code, email, expiry_time) ==
    [otp |-> str(otp_code.v[1]), email |-> email, expiry |-> expiry_time]

\* Lines 97-104: whether generate-otp rejects the request, and with what.
GenerateInvalid(req) == ~req.is_json \/ ~req.is_dict \/ Falsy(req.email)

GenerateRejection(req) ==
    IF ~req.is_json THEN MissingJson
    ELSE IF ~req.is_dict THEN Unhandled("AttributeError")
    ELSE MissingEmail

\* Lines 97-104: a request without JSON, or without an email, is answered
\* with 400; a JSON body that is no object has no .get (AttributeError).
GenerateReject(t) ==
    /\ thr[t].pc = "generate"
    /\ GenerateInvalid(thr[t].req)
    /\ Return(t, GenerateRejection(thr[t].req))
    /\ UNCHANGED <<OTP_STORE, now, issued, mail, nSuccess, nExpired>>

\* Lines 97-116: validation passes; draw the code and the session id, read
\* the clock, and OTP_STORE[session_id] = {...}.
GenerateStore(t, ids) ==
    /\ thr[t].pc = "generate"
    /\ ~GenerateInvalid(thr[t].req)
    /\ \E r \in RandBelow, id \in ids :
        LET otp_code == JInt(r + 100000)
            expiry_time == now + OTP_EXPIRY_SECONDS
        IN
        /\ issued' = [issued EXCEPT ![id] = @ + 1]
        /\ OTP_STORE' = DictSet(OTP_STORE, id, OtpRecord(otp_code, thr[t].req.email, expiry_time))
        /\ thr' = [thr EXCEPT ![t] =
                [@ EXCEPT !.pc = "send", !.otp_code = otp_code, !.session_id = id,
                          !.expiry_time = expiry_time]]
    /\ UNCHANGED <<now, mail, out, nSuccess, nExpired>>

\* Line 119: send_otp_email(email, str(otp_code)) hands the pair to SMTP and
\* returns True, or False when SMTP raised (app.py:70-89).
GenerateSend(t) ==
    /\ thr[t].pc = "send"
    /\ mail' = mail \cup {[to |-> thr[t].req.email, otp_code |-> str(thr[t].otp_code.v[1])]}
    /\ \E success \in BOOLEAN :
        thr' = [thr EXCEPT ![t] = [@ EXCEPT !.pc = "respond", !.success = success]]
    /\ UNCHANGED <<OTP_STORE, now, issued, out, nSuccess, nExpired>>

\* The response of lines 121-129 to send_otp_email's result.
GenerateResponse(success, session_id) ==
    IF success THEN OtpSent(session_id) ELSE DeliveryFailed

\* Lines 121-129, with the record taken back when the mail was not sent.
GenerateRespondRollback(t) ==
    /\ thr[t].pc = "respond"
    /\ Return(t, GenerateResponse(thr[t].success, thr[t].session_id))
    /\ OTP_STORE' = IF thr[t].success \/ thr[t].session_id \notin DOMAIN OTP_STORE
                    THEN OTP_STORE
                    ELSE DictDel(OTP_STORE, thr[t].session_id)
    /\ UNCHANGED <<now, issued, mail, nSuccess, nExpired>>

\* Lines 121-129.
GenerateRespond(t) ==
    /\ thr[t].pc = "respond"
    /\ Return(t, GenerateResponse(thr[t].success, thr[t].session_id))
    /\ UNCHANGED <<OTP_STORE, now, issued, mail, nSuccess, nExpired>>

---------------------------------------------------------------------------
(* verify-otp: app.py:131-159 *)

\* The expiry test made inclusive: the instant of expiry counts as expired.
IsExpiredAtExpiry(time, stored_otp_data) == time >= stored_otp_data.expiry

\* The comparison of line 150 reversed.
IsExpiredReversed(time, stored_otp_data) == time < stored_otp_data.expiry

\* Line 150: time.time() > stored_otp_data['expiry'].
IsExpired(time, stored_otp_data) == time > stored_otp_data.expiry

\* The comparison of line 155 on the text of the code, whatever its type.
OtpMatchesAnyType(otp_code, stored_otp_data) ==
    \/ PyEqStr(otp_code, stored_otp_data.otp)
    \/ otp_code.t = "int" /\ str(otp_code.v[1]) = stored_otp_data.otp

\* Line 155: otp_code == stored_otp_data['otp'].
OtpMatches(otp_code, stored_otp_data) == PyEqStr(otp_code, stored_otp_data.otp)

\* Lines 134-142: whether verify-otp rejects the request, and with what.
VerifyInvalid(req) ==
    ~req.is_json \/ ~req.is_dict \/ Falsy(req.session_id) \/ Falsy(req.otp_code)

VerifyRejection(req) ==
    IF ~req.is_json THEN MissingJson
    ELSE IF ~req.is_dict THEN Unhandled("AttributeError")
    ELSE MissingVerifyField

\* Lines 134-142: a request without JSON, or with a falsy session_id or
\* otp_code, is answered with 400; a JSON body that is no object has no .get.
VerifyReject(t) ==
    /\ thr[t].pc = "verify"
    /\ VerifyInvalid(thr[t].req)
    /\ Return(t, VerifyRejection(thr[t].req))
    /\ UNCHANGED <<OTP_STORE, now, issued, mail, nSuccess, nExpired>>

\* Lines 134-147: validation passes; stored_otp_data = OTP_STORE.get(session_id),
\* and 404 when there is none.
VerifyLookup(t) ==
    /\ thr[t].pc = "verify"
    /\ ~VerifyInvalid(thr[t].req)
    /\ LET stored == DictGet(OTP_STORE, thr[t].req.session_id) IN
       IF stored = None
       THEN Return(t, SessionNotFound)
       ELSE /\ thr' = [thr EXCEPT ![t] =
                    [@ EXCEPT !.pc = "check",
                              !.session_id = thr[t].req.session_id,
                              !.otp_code = thr[t].req.otp_code,
                              !.stored_otp_data = stored]]
            /\ out' = out
    /\ UNCHANGED <<OTP_STORE, now, issued, mail, nSuccess, nExpired>>

\* Lines 150, 155, 159: read the clock and take the expired branch, the
\* match branch, or answer CodeMismatch.
VerifyCheck(t) ==
    /\ thr[t].pc = "check"
    /\ IF IsExpired(now, thr[t].stored_otp_data)
       THEN thr' = [thr EXCEPT ![t].pc = "del_expired"] /\ out' = out
       ELSE IF OtpMatches(thr[t].otp_code, thr[t].stored_otp_data)
       THEN thr' = [thr EXCEPT ![t].pc = "del_consumed"] /\ out' = out
       ELSE Return(t, CodeMismatch)
    /\ UNCHANGED <<OTP_STORE, now, issued, mail, nSuccess, nExpired>>

\* A del that never raises, as d.pop(k, None) would not.
DelNeverRaises(d, k) == FALSE

\* del d[k] raises KeyError when k is not in d.
DelRaises(d, k) == k \notin DOMAIN d

\* Lines 151-152: del OTP_STORE[session_id], then Expired.
VerifyDelExpired(t) ==
    /\ thr[t].pc = "del_expired"
    /\ IF DelRaises(OTP_STORE, thr[t].session_id)
       THEN /\ Return(t, Unhandled("KeyError"))
            /\ UNCHANGED <<OTP_STORE, nExpired>>
       ELSE /\ OTP_STORE' = DictDel(OTP_STORE, thr[t].session_id)
            /\ nExpired' = [nExpired EXCEPT ![thr[t].session_id] = @ + 1]
            /\ Return(t, Expired)
    /\ UNCHANGED <<now, issued, mail, nSuccess>>

\* Lines 156-157: del OTP_STORE[session_id], then success.
VerifyDelConsumed(t) ==
    /\ thr[t].pc = "del_consumed"
    /\ IF DelRaises(OTP_STORE, thr[t].session_id)
       THEN /\ Return(t, Unhandled("KeyError"))
            /\ UNCHANGED <<OTP_STORE, nSuccess>>
       ELSE /\ OTP_STORE' = DictDel(OTP_STORE, thr[t].session_id)
            /\ nSuccess' = [nSuccess EXCEPT ![thr[t].session_id] = @ + 1]
            /\ Return(t, Verified)
    /\ UNCHANGED <<now, issued, mail, nExpired>>

---------------------------------------------------------------------------
(* send-response: app.py:162-231 *)

\* Lines 168-176 fail: get_json or data.get raised inside the try (no JSON,
\* or a body that is no object), or all([username, user_email, concern]) is false.
SupportInvalid(req) ==
    \/ ~req.is_json \/ ~req.is_dict
    \/ Falsy(req.username) \/ Falsy(req.receiver) \/ Falsy(req.message)

\* Lines 176 and 229-231: 400 for a missing field, 500 for what the except caught.
SupportRejection(req) ==
    IF ~req.is_json \/ ~req.is_dict THEN TicketFailed ELSE MissingTicketField

\* Lines 167-176, 229-231: the ticket is rejected.
SupportReject(t) ==
    /\ thr[t].pc = "support"
    /\ SupportInvalid(thr[t].req)
    /\ Return(t, SupportRejection(thr[t].req))
    /\ UNCHANGED <<OTP_STORE, now, issued, mail, nSuccess, nExpired>>

\* A ticket handler that also drops the OTP sessions of the ticket's sender.
SupportSendDropsSessions(t) ==
    /\ thr[t].pc = "support"
    /\ ~SupportInvalid(thr[t].req)
    /\ \E success \in BOOLEAN :
        Return(t, IF success THEN TicketReceived ELSE TicketFailed)
    /\ OTP_STORE' = [s \in {k \in DOMAIN OTP_STORE :
                                OTP_STORE[k].email # thr[t].req.receiver}
                        |-> OTP_STORE[s]]
    /\ UNCHANGED <<now, issued, mail, nSuccess, nExpired>>

\* Lines 178-231: the two mails go out over SMTP_SSL and the answer is 200,
\* or SMTP raises and the except answers 500.
SupportSend(t) ==
    /\ thr[t].pc = "support"
    /\ ~SupportInvalid(thr[t].req)
    /\ \E success \in BOOLEAN :
        Return(t, IF success THEN TicketReceived ELSE TicketFailed)
    /\ UNCHANGED <<OTP_STORE, now, issued, mail, nSuccess, nExpired>>

---------------------------------------------------------------------------
(* The server and the clock *)

\* Time passes, and a background sweep drops the records past their expiry.
TickSweep ==
    /\ now < MaxTicks * OTP_EXPIRY_SECONDS
    /\ now' = now + OTP_EXPIRY_SECONDS
    /\ OTP_STORE' = [s \in {k \in DOMAIN OTP_STORE : now' <= OTP_STORE[k].expiry}
                        |-> OTP_STORE[s]]
    /\ UNCHANGED <<issued, mail, thr, out, nSuccess, nExpired>>

\* Time passes, one validity window at a time.
Tick ==
    /\ now < MaxTicks * OTP_EXPIRY_SECONDS
    /\ now' = now + OTP_EXPIRY_SECONDS
    /\ UNCHANGED <<OTP_STORE, issued, mail, thr, out, nSuccess, nExpired>>

\* The threaded server: the handlers' steps interleave.
Next ==
    \/ \E t \in Threads : Receive(t)
    \/ \E t \in Threads : GenerateReject(t)
    \/ \E t \in Threads : GenerateStore(t, uuid4)
    \/ \E t \in Threads : GenerateSend(t)
    \/ \E t \in Threads : GenerateRespond(t)
    \/ \E t \in Threads : VerifyReject(t)
    \/ \E t \in Threads : VerifyLookup(t)
    \/ \E t \in Threads : VerifyCheck(t)
    \/ \E t \in Threads : VerifyDelExpired(t)
    \/ \E t \in Threads : VerifyDelConsumed(t)
    \/ \E t \in Threads : SupportReject(t)
    \/ \E t \in Threads : SupportSend(t)
    \/ Tick

Spec == Init /\ [][Next]_vars

\* A server that handles one request at a time: a handler runs from its
\* first step to its response while no other handler is running.
SeqNext ==
    \/ \E t \in Threads : Alone(t) /\ Receive(t)
    \/ \E t \in Threads : Alone(t) /\ GenerateReject(t)
    \/ \E t \in Threads : Alone(t) /\ GenerateStore(t, uuid4)
    \/ \E t \in Threads : Alone(t) /\ GenerateSend(t)
    \/ \E t \in Threads : Alone(t) /\ GenerateRespond(t)
    \/ \E t \in Threads : Alone(t) /\ VerifyReject(t)
    \/ \E t \in Threads : Alone(t) /\ VerifyLookup(t)
    \/ \E t \in Threads : Alone(t) /\ VerifyCheck(t)
    \/ \E t \in Threads : Alone(t) /\ VerifyDelExpired(t)
    \/ \E t \in Threads : Alone(t) /\ VerifyDelConsumed(t)
    \/ \E t \in Threads : Alone(t) /\ SupportReject(t)
    \/ \E t \in Threads : Alone(t) /\ SupportSend(t)
    \/ Tick

SeqSpec == Init /\ [][SeqNext]_vars

\* One request at a time, with uuid4 as a random draw that may repeat.
CollideNext ==
    \/ \E t \in Threads : Alone(t) /\ Receive(t)
    \/ \E t \in Threads : Alone(t) /\ GenerateReject(t)
    \/ \E t \in Threads : Alone(t) /\ GenerateStore(t, uuid4_random)
    \/ \E t \in Threads : Alone(t) /\ GenerateSend(t)
    \/ \E t \in Threads : Alone(t) /\ GenerateRespond(t)
    \/ \E t \in Threads : Alone(t) /\ VerifyReject(t)
    \/ \E t \in Threads : Alone(t) /\ VerifyLookup(t)
    \/ \E t \in Threads : Alone(t) /\ VerifyCheck(t)
    \/ \E t \in Threads : Alone(t) /\ VerifyDelExpired(t)
    \/ \E t \in Threads : Alone(t) /\ VerifyDelConsumed(t)
    \/ \E t \in Threads : Alone(t) /\ SupportReject(t)
    \/ \E t \in Threads : Alone(t) /\ SupportSend(t)
    \/ Tick

CollideSpec == Init /\ [][CollideNext]_vars

---------------------------------------------------------------------------
(* What the claims speak of *)

\* Thread t takes a step.
Stepped(t) == thr'[t] # thr[t]

\* Thread t's handler holds a record it read from the store.
HoldsRecord(t) == thr[t].pc \in {"check", "del_expired", "del_consumed"}

\* The code thread t's request submitted is the stored code: a string with
\* the same characters.
CorrectCode(t) ==
    /\ thr[t].otp_code.t = "str"
    /\ thr[t].otp_code.v = thr[t].stored_otp_data.otp

\* A verify-otp request with a session id and a code (neither absent, empty or 0).
WellFormed(req) ==
    /\ req.is_json /\ req.is_dict
    /\ req.session_id.t = "str" /\ req.session_id.v # <<>>
    /\ req.otp_code.t # "null" /\ req.otp_code.v \notin {<<>>, <<0>>}

\* While calls do not overlap, a verify-otp call finds the record that is in
\* the store, and works on that record until it responds.
FindsTheRecord(t) ==
    /\ HoldsRecord(t) =>
            /\ thr[t].session_id \in DOMAIN OTP_STORE
            /\ OTP_STORE[thr[t].session_id] = thr[t].stored_otp_data
    /\ (/\ thr[t].pc = "verify" /\ Stepped(t) /\ WellFormed(thr[t].req)
        /\ thr[t].req.session_id \in DOMAIN OTP_STORE)
            => /\ thr'[t].pc = "check"
               /\ thr'[t].session_id = thr[t].req.session_id
               /\ thr'[t].otp_code = thr[t].req.otp_code

\* A call that holds the correct code at a time before the expiry goes on to
\* delete the record and answers success.
SucceedsWhenCorrect(t) ==
    /\ (/\ thr[t].pc = "check" /\ Stepped(t) /\ CorrectCode(t)
        /\ now < thr[t].stored_otp_data.expiry)
            => thr'[t].pc = "del_consumed"
    /\ (thr[t].pc = "del_consumed" /\ Stepped(t))
            => /\ out' = Verified
               /\ thr'[t].pc = "idle"
               /\ thr[t].session_id \notin DOMAIN OTP_STORE'
               /\ nSuccess'[thr[t].session_id] = nSuccess[thr[t].session_id] + 1

\* C1: while calls do not overlap, a verify-otp call with the correct code
\* before expires_at finds the record, deletes it and answers success; no
\* session id gets a second success; and a verify-otp call on a session id
\* that has had its success answers SessionNotFound (404), whatever its code.
C1_VerifySucceedsOnce ==
    [][/\ \A s \in SessionIds : nSuccess'[s] <= 1
       /\ \A t \in Threads :
            /\ FindsTheRecord(t)
            /\ SucceedsWhenCorrect(t)
            /\ (/\ thr[t].pc = "verify" /\ Stepped(t) /\ WellFormed(thr[t].req)
                /\ thr[t].req.session_id \in SessionIds
                /\ nSuccess[thr[t].req.session_id] > 0)
                    => out' = SessionNotFound /\ thr'[t].pc = "idle"]_vars

\* Every session id has had its success, and the call after that was
\* answered SessionNotFound.
C1_Witness ==
    /\ \A s \in SessionIds : nSuccess[s] = 1 /\ s \notin DOMAIN OTP_STORE
    /\ out = SessionNotFound

\* C2: while calls do not overlap, a verify-otp call that reads a time after
\* expires_at takes the expired branch whether or not its code is correct
\* (never the match branch, never CodeMismatch), deletes the record and
\* answers Expired (400).
C2_ExpiredWhateverTheCode ==
    [][\A t \in Threads :
            /\ FindsTheRecord(t)
            /\ (/\ thr[t].pc = "check" /\ Stepped(t)
                /\ now > thr[t].stored_otp_data.expiry)
                    => /\ thr'[t].pc = "del_expired"
                       /\ out' = out
            /\ (thr[t].pc = "del_expired" /\ Stepped(t))
                    => /\ out' = Expired
                       /\ thr'[t].pc = "idle"
                       /\ thr[t].session_id \notin DOMAIN OTP_STORE'
                       /\ nSuccess' = nSuccess]_vars

\* A call with the correct code has read a time after the expiry and is on
\* the expired branch.
C2_Witness ==
    \E t \in Threads :
        /\ thr[t].pc = "del_expired"
        /\ CorrectCode(t)
        /\ now > thr[t].stored_otp_data.expiry

\* C3: while calls do not overlap, a verify-otp call with an incorrect code
\* at a time not after the expiry answers CodeMismatch (400) and leaves the
\* store as it was, every record with its code, email and expiry; nothing
\* counts the attempts, and a call with the correct code before the expiry
\* still succeeds.
C3_MismatchKeepsRecord ==
    [][\A t \in Threads :
            /\ FindsTheRecord(t)
            /\ (/\ thr[t].pc = "check" /\ Stepped(t) /\ ~CorrectCode(t)
                /\ now <= thr[t].stored_otp_data.expiry)
                    => /\ out' = CodeMismatch
                       /\ thr'[t].pc = "idle"
                       /\ OTP_STORE' = OTP_STORE
                       /\ OTP_STORE[thr[t].session_id] = thr[t].stored_otp_data
            /\ SucceedsWhenCorrect(t)]_vars

\* The last answer was CodeMismatch and every session id issued is still in
\* the store, not consumed and not expired.
C3_Witness ==
    /\ out = CodeMismatch
    /\ DOMAIN OTP_STORE = SessionIds
    /\ \A t \in Threads : thr[t].pc = "idle"

\* Thread t's handler returns in this step.
Returns(t) == thr[t].pc # "idle" /\ thr'[t].pc = "idle"

\* C4: of two verify-otp calls that overlap on one unexpired session id,
\* both with the correct code, one answers success and the other
\* SessionNotFound (404): a call that holds the correct code for a record
\* that no call has found expired ends with one of these two answers.
C4_OneSuccessOtherNotFound ==
    [][\A t \in Threads :
            (/\ thr[t].pc = "del_consumed" /\ Returns(t)
             /\ nExpired[thr[t].session_id] = 0)
                => out' \in {Verified, SessionNotFound}]_vars

\* C5: however the steps of overlapping verify-otp calls interleave, at most
\* one of them answers success for one issued record.
C5_AtMostOneSuccess == \A s \in SessionIds : nSuccess[s] <= 1

\* A call is about to delete a record that an overlapping call has already
\* consumed with success.
C5_Witness ==
    \E t \in Threads :
        /\ thr[t].pc = "del_consumed"
        /\ nSuccess[thr[t].session_id] = 1

\* C6: a verify-otp call answers success only if it found a record under the
\* submitted session id, read a time not after that record's expiry, and
\* submitted a string equal, character for character, to the stored code;
\* the record is still in the store when the call deletes it.
C6_SuccessOnlyOnExactMatch ==
    [][\A t \in Threads :
            /\ (Stepped(t) /\ thr'[t].pc = "del_consumed")
                    => /\ thr[t].pc = "check"
                       /\ thr[t].stored_otp_data # None
                       /\ thr[t].session_id = thr[t].req.session_id
                       /\ thr[t].otp_code = thr[t].req.otp_code
                       /\ now <= thr[t].stored_otp_data.expiry
                       /\ CorrectCode(t)
            /\ (Returns(t) /\ out' = Verified)
                    => /\ thr[t].pc = "del_consumed"
                       /\ CorrectCode(t)
                       /\ thr[t].session_id \in DOMAIN OTP_STORE
                       /\ OTP_STORE[thr[t].session_id] = thr[t].stored_otp_data]_vars

\* A call was answered success while another record stays in the store.
C6_Witness ==
    /\ out = Verified
    /\ \E s \in SessionIds : nSuccess[s] = 1
    /\ OTP_STORE # << >>

\* C7: storing a record under a session id that is in the store leaves the
\* store as it was (the insertion fails; the existing record is not
\* overwritten).
C7_PutRejectsDuplicate ==
    [][\A t \in Threads :
            (/\ thr[t].pc = "generate" /\ thr'[t].pc = "send"
             /\ thr'[t].session_id \in DOMAIN OTP_STORE)
                => OTP_STORE' = OTP_STORE]_vars

\* C8: removing a session id that is absent from the store raises no error
\* and leaves the store unchanged.
C8_DeleteIdempotent ==
    [][\A t \in Threads :
            (/\ thr[t].pc \in {"del_expired", "del_consumed"} /\ Stepped(t)
             /\ thr[t].session_id \notin DOMAIN OTP_STORE)
                => /\ out'.exc = ""
                   /\ out'.status # 500
                   /\ OTP_STORE' = OTP_STORE]_vars

\* The text of thread t's code, as generate-otp drew it.
DrawnCode(t) == str(thr[t].otp_code.v[1])

\* C9: when send_otp_email reports failure, generate-otp answers 500 with no
\* session id and leaves the store as it is; a record leaves the store only
\* in the step of a verify-otp call on its session id that answers success
\* or Expired, so the record of a failed delivery is in the store, as
\* created, unless such a call has removed it.
C9_RecordStaysOnDeliveryFailure ==
    [][/\ \A t \in Threads :
            /\ (thr[t].pc = "respond" /\ Stepped(t) /\ ~thr[t].success)
                    => /\ out'.status = 500
                       /\ out'.session_id = JNone
                       /\ thr'[t].pc = "idle"
                       /\ OTP_STORE' = OTP_STORE
            /\ thr[t].pc \in {"send", "respond"}
                    => \/ /\ thr[t].session_id \in DOMAIN OTP_STORE
                          /\ OTP_STORE[thr[t].session_id] =
                                [otp |-> DrawnCode(t), email |-> thr[t].req.email,
                                 expiry |-> thr[t].expiry_time]
                       \/ nSuccess[thr[t].session_id] > 0
                       \/ nExpired[thr[t].session_id] > 0
       /\ \A s \in DOMAIN OTP_STORE :
            s \notin DOMAIN OTP_STORE'
                => \E t \in Threads :
                        /\ thr[t].pc \in {"del_expired", "del_consumed"}
                        /\ thr[t].session_id = s
                        /\ Returns(t)
                        /\ out' \in {Verified, Expired}]_vars

\* The one generate-otp call so far was answered with the delivery failure
\* and its record is in the store.
C9_Witness ==
    /\ out = DeliveryFailed
    /\ Sum(issued, SessionIds) = 1
    /\ \E s \in SessionIds : issued[s] = 1 /\ s \in DOMAIN OTP_STORE
    /\ \A t \in Threads : thr[t].pc = "idle"

\* A field that is missing (null) or empty.
MissingOrEmpty(x) == x = JNone \/ x = JStr(<< >>)

C11_FreshIdOneRecordAdded ==
    [][\A t \in Threads :
            (thr[t].pc = "generate" /\ thr'[t].pc = "send")
                => /\ thr'[t].session_id \notin DOMAIN OTP_STORE
                   /\ DOMAIN OTP_STORE' = DOMAIN OTP_STORE \cup {thr'[t].session_id}
                   /\ \A s \in DOMAIN OTP_STORE : OTP_STORE'[s] = OTP_STORE[s]
                   /\ \A u \in Threads \ {t} :
                        thr[u].pc \in {"send", "respond"}
                            => thr[u].session_id # thr'[t].session_id]_vars

\* Two generate-otp calls for the same email are in progress at once, each
\* with its own record in the store.
C11_Witness ==
    \E t, u \in Threads :
        /\ t # u
        /\ thr[t].pc = "send" /\ thr[u].pc = "send"
        /\ thr[t].session_id # thr[u].session_id
        /\ {thr[t].session_id, thr[u].session_id} \subseteq DOMAIN OTP_STORE
        /\ OTP_STORE[thr[t].session_id].email = OTP_STORE[thr[u].session_id].email

\* C12: the expiry test is strict.  A verify-otp call that reads the clock at
\* exactly the record's expiry proceeds to compare the codes: with the
\* correct code it answers success and removes the record, with another code
\* it answers "Invalid OTP code." and the record stays; a call is answered
\* Expired only when the time it read is strictly greater than the expiry.
C12_StrictExpiry ==
    [][\A t \in Threads :
            /\ (thr[t].pc = "check" /\ Stepped(t) /\ now = thr[t].stored_otp_data.expiry)
                    => IF CorrectCode(t)
                       THEN thr'[t].pc = "del_consumed" /\ OTP_STORE' = OTP_STORE
                       ELSE /\ thr'[t].pc = "idle"
                            /\ out' = CodeMismatch
                            /\ OTP_STORE' = OTP_STORE
            /\ (thr[t].pc = "del_consumed" /\ Stepped(t))
                    => /\ out' = Verified
                       /\ thr[t].session_id \notin DOMAIN OTP_STORE'
            /\ (Stepped(t) /\ thr'[t].pc = "del_expired")
                    => now > thr[t].stored_otp_data.expiry
            /\ (Returns(t) /\ out' = Expired)
                    => thr[t].pc = "del_expired"]_vars

\* A call that read the clock at exactly the expiry of its record is about
\* to consume it.
C12_Witness ==
    \E t \in Threads :
        /\ thr[t].pc = "del_consumed"
        /\ now = thr[t].stored_otp_data.expiry
        /\ thr[t].session_id \in DOMAIN OTP_STORE

\* C13: a record is stored with expiry = the time of its issuance + 300
\* seconds exactly; a successful generate-otp answer reports
\* expires_in_seconds = 300; and the expiry of a record in the store never
\* changes.
C13_ExpiryIsIssuancePlus300 ==
    [][/\ \A t \in Threads :
            /\ (thr[t].pc = "generate" /\ thr'[t].pc = "send")
                    => /\ thr'[t].session_id \in DOMAIN OTP_STORE'
                       /\ OTP_STORE'[thr'[t].session_id].expiry = now + 300
            /\ (thr[t].pc = "respond" /\ Returns(t) /\ thr[t].success)
                    => /\ out'.status = 200
                       /\ out'.expires_in_seconds = JInt(300)
       /\ \A s \in DOMAIN OTP_STORE \cap DOMAIN OTP_STORE' :
            OTP_STORE'[s].expiry = OTP_STORE[s].expiry]_vars

\* A record issued at time 300 is in the store, expiring at 600, when the
\* clock reads 600; its issuance was answered 200.
C13_Witness ==
    /\ out.status = 200 /\ out.expires_in_seconds = JInt(300)
    /\ out.session_id \in DOMAIN OTP_STORE
    /\ OTP_STORE[out.session_id].expiry = 600
    /\ now = 600

\* The number a sequence of decimal digits (code points 48..57) writes.
RECURSIVE DecimalValue(_)
DecimalValue(digits) ==
    IF digits = << >> THEN 0
    ELSE 10 * DecimalValue(SubSeq(digits, 1, Len(digits) - 1))
            + (digits[Len(digits)] - 48)

\* C14: every record in the store holds its code as a string of exactly six
\* decimal digits whose value lies in 100000..999999 (stated of every code
\* that enters the store or changes in it, the store being empty at first);
\* and the pair that
\* generate-otp hands to send_otp_email is the email and the code of the
\* record that call stored under its session id.
C14_SixDigitCodeMailedAsStored ==
    [][/\ \A s \in DOMAIN OTP_STORE' :
            (s \in DOMAIN OTP_STORE => OTP_STORE'[s].otp # OTP_STORE[s].otp)
                => LET otp == OTP_STORE'[s].otp IN
                   /\ Len(otp) = 6
                   /\ \A i \in 1 .. Len(otp) : otp[i] \in 48 .. 57
                   /\ DecimalValue(otp) \in 100000 .. 999999
       /\ \A t \in Threads :
            (thr[t].pc = "send" /\ Stepped(t))
                => \E m \in mail' :
                    /\ mail' = mail \cup {m}
                    /\ m.to = thr[t].req.email
                    /\ \/ /\ thr[t].session_id \in DOMAIN OTP_STORE
                          /\ m.to = OTP_STORE[thr[t].session_id].email
                          /\ m.otp_code = OTP_STORE[thr[t].session_id].otp
                       \/ nSuccess[thr[t].session_id] > 0
                       \/ nExpired[thr[t].session_id] > 0]_vars

\* Both ends of the range were drawn: the records hold "100000" and "999999",
\* and both codes were handed to the mail sender.
C14_Witness ==
    /\ {OTP_STORE[s].otp : s \in DOMAIN OTP_STORE}
            = {<<49, 48, 48, 48, 48, 48>>, <<57, 57, 57, 57, 57, 57>>}
    /\ {m.otp_code : m \in mail} = {OTP_STORE[s].otp : s \in DOMAIN OTP_STORE}

\* C15: the store changes only in generate-otp's insertion of one record and
\* in verify-otp's removal of one record.  No step of a send-response call
\* (answered 200, rejected with 400 for a missing field, or failed with 500)
\* changes it, and neither does the call of send_otp_email.
C15_OnlyGenerateAndVerifyMutate ==
    [][/\ \A t \in Threads :
            /\ (Stepped(t) /\ "send-response" \in {thr[t].route, thr'[t].route})
                    => OTP_STORE' = OTP_STORE
            /\ (Returns(t) /\ thr[t].route = "send-response")
                    => out' \in {TicketReceived, MissingTicketField, TicketFailed}
            /\ (Stepped(t) /\ thr[t].pc = "send")
                    => OTP_STORE' = OTP_STORE
       /\ OTP_STORE' # OTP_STORE
            => \E t \in Threads :
                \/ /\ thr[t].route = "generate-otp"
                   /\ thr[t].pc = "generate" /\ thr'[t].pc = "send"
                   /\ DOMAIN OTP_STORE' = DOMAIN OTP_STORE \cup {thr'[t].session_id}
                \/ /\ thr[t].route = "verify-otp"
                   /\ thr[t].pc \in {"del_expired", "del_consumed"}
                   /\ DOMAIN OTP_STORE' = DOMAIN OTP_STORE \ {thr[t].session_id}]_vars

\* A support ticket was accepted while a record was in the store and
\* another call was in the middle of verifying it.
C15_Witness ==
    /\ out = TicketReceived
    /\ \E t \in Threads :
        /\ thr[t].pc = "check"
        /\ thr[t].session_id \in DOMAIN OTP_STORE

\* C16: expiry is lazy.  A record leaves the store only in the deleting step
\* of a verify-otp call on its own session id (after a match, or after that
\* call found it expired); the passing of time removes nothing; so a record
\* on whose session id no verify-otp call has deleted is in the store, however
\* long after its expiry.
C16_LazyExpiry ==
    [][/\ \A s \in DOMAIN OTP_STORE :
            s \notin DOMAIN OTP_STORE'
                => \E t \in Threads :
                        /\ thr[t].route = "verify-otp"
                        /\ thr[t].req.session_id = s
                        /\ \/ thr[t].pc = "del_consumed" /\ CorrectCode(t)
                           \/ /\ thr[t].pc = "del_expired"
                              /\ thr[t].stored_otp_data.expiry < now
                        /\ Returns(t)
       /\ now' # now => OTP_STORE' = OTP_STORE
       /\ \A s \in SessionIds :
            (issued'[s] > 0 /\ nSuccess'[s] = 0 /\ nExpired'[s] = 0)
                => s \in DOMAIN OTP_STORE']_vars

\* A record issued at time 0 expired at 300 and is in the store at 600; no
\* call is in progress and none has deleted anything.
C16_Witness ==
    /\ now = 600
    /\ \E s \in DOMAIN OTP_STORE : OTP_STORE[s].expiry = 300
    /\ \A t \in Threads : thr[t].pc = "idle"
    /\ \A s \in SessionIds : nSuccess[s] = 0 /\ nExpired[s] = 0

\* C17: no step of a verify-otp call on session id S, whatever its outcome,
\* changes or removes a record stored under another session id; consuming
\* one session of an email leaves another live session of that email as it
\* was.
C17_VerifyLeavesOtherSessions ==
    [][\A t \in Threads :
            (thr[t].route = "verify-otp" /\ Stepped(t))
                => \A s \in DOMAIN OTP_STORE \ {thr[t].req.session_id} :
                        /\ s \in DOMAIN OTP_STORE'
                        /\ OTP_STORE'[s] = OTP_STORE[s]]_vars

\* One session of an email was consumed and the other session of the same
\* email is in the store, not expired.
C17_Witness ==
    /\ out = Verified
    /\ \E s1, s2 \in SessionIds :
        /\ s1 # s2
        /\ nSuccess[s1] = 1 /\ s1 \notin DOMAIN OTP_STORE
        /\ s2 \in DOMAIN OTP_STORE
        /\ OTP_STORE[s2].email \in Addresses
        /\ now <= OTP_STORE[s2].expiry
    /\ issued = [s \in SessionIds |-> 1]

\* C18: when verify-otp calls on one session id overlap and the record is
\* past its expiry, each call that found the record expired is answered
\* Expired (400) or SessionNotFound (404), none ends in an unhandled error,
\* and the record is absent afterwards.
C18_ExpiredRaceEndsCleanly ==
    [][\A t \in Threads :
            (/\ thr[t].route = "verify-otp"
             /\ thr[t].pc = "del_expired" /\ Stepped(t)
             /\ nSuccess[thr[t].session_id] = 0)
                => /\ out' \in {Expired, SessionNotFound}
                   /\ out'.exc = ""
                   /\ thr[t].session_id \notin DOMAIN OTP_STORE']_vars

====
